---- MODULE Spec2Model ----
(***************************************************************************)
(* State-machine model of the GECCO-2026-TPEC tooling:                     *)
(*   - Source/Base/individual.py           (class Individual)              *)
(*   - Data-Tools/Preprocessing/aggregate_results.py                       *)
(*   - Data-Tools/Preprocessing/job_checker.py                             *)
(*                                                                         *)
(* Python values are encoded uniformly so that TLC can compare them:       *)
(*   None            is the empty tuple <<>>                               *)
(*   a float/int v   held in an optional slot is the 1-tuple <<v>>         *)
(* Accuracies are exact integers (hundredths); a mean is kept as the exact *)
(* fraction num/den, so floating-point rounding is abstracted away.        *)
(***************************************************************************)
EXTENDS Integers, Sequences, FiniteSets, TLC

VARIABLES
    train_performance,  \* Individual.train_performance
    val_performance,    \* Individual.val_performance
    ei,                 \* Individual.ei
    params,             \* Individual.params : a reference into the heap
    heap,               \* Python objects reachable from params or the caller
    returned,           \* references the caller got back from get_params
    first_set,          \* history: value passed to the first setter call, per field
    fs,                 \* the file system below (and including) the results root
    tasks_summary,      \* the input table tasks_summary.csv
    output_csv,         \* what aggregate_results wrote (None: nothing written)
    model_array_ids,    \* job_checker: array ids recorded per model
    empty_count,        \* job_checker: counter of flagged slots
    call                \* the last call made and how it ended

vars == <<train_performance, val_performance, ei, params, heap, returned, first_set,
          fs, tasks_summary, output_csv, model_array_ids, empty_count, call>>

None == <<>>
Some(v) == <<v>>
IsNone(x) == x = <<>>
Val(x) == x[1]

NoCall == [op |-> "none"]

(***************************************************************************)
(* Bounds of the model                                                     *)
(***************************************************************************)
MaxScore == 1
\* floats a caller passes to a setter; 0 is the falsy float 0.0
Floats == 0..MaxScore

(***************************************************************************)
(* Source/Base/individual.py                                               *)
(***************************************************************************)
Fields == {"train_performance", "val_performance", "ei"}

indVars == <<train_performance, val_performance, ei, first_set>>
paramVars == <<params, heap, returned>>
toolVars == <<fs, tasks_summary, output_csv, model_array_ids, empty_count>>

\* history bookkeeping: remember the argument of the first setter call of a field
Remember(field, f) ==
    first_set' = IF IsNone(first_set[field])
                 THEN [first_set EXCEPT ![field] = Some(f)]
                 ELSE first_set

\* a call that ends in AssertionError: nothing is assigned
Raises(op, args) ==
    /\ call' = [op |-> op, args |-> args, raised |-> "AssertionError", ret |-> None]
    /\ UNCHANGED <<indVars, paramVars, toolVars>>

set_train_performance_truthy(f) ==
    IF IsNone(train_performance) \/ train_performance = Some(0)
    THEN /\ train_performance' = Some(f)
         /\ Remember("train_performance", f)
         /\ call' = [op |-> "set_train_performance", args |-> <<f>>,
                     raised |-> "none", ret |-> None]
         /\ UNCHANGED <<val_performance, ei, paramVars, toolVars>>
    ELSE Raises("set_train_performance", <<f>>)

set_train_performance(f) ==
    IF IsNone(train_performance)
    THEN /\ train_performance' = Some(f)
         /\ Remember("train_performance", f)
         /\ call' = [op |-> "set_train_performance", args |-> <<f>>,
                     raised |-> "none", ret |-> None]
         /\ UNCHANGED <<val_performance, ei, paramVars, toolVars>>
    ELSE Raises("set_train_performance", <<f>>)

get_train_performance ==
    IF ~IsNone(train_performance)
    THEN /\ call' = [op |-> "get_train_performance", args |-> <<>>,
                     raised |-> "none", ret |-> train_performance]
         /\ UNCHANGED <<indVars, paramVars, toolVars>>
    ELSE Raises("get_train_performance", <<>>)

set_val_performance(f) ==
    IF IsNone(val_performance)
    THEN /\ val_performance' = Some(f)
         /\ Remember("val_performance", f)
         /\ call' = [op |-> "set_val_performance", args |-> <<f>>,
                     raised |-> "none", ret |-> None]
         /\ UNCHANGED <<train_performance, ei, paramVars, toolVars>>
    ELSE Raises("set_val_performance", <<f>>)

get_val_performance ==
    IF ~IsNone(val_performance)
    THEN /\ call' = [op |-> "get_val_performance", args |-> <<>>,
                     raised |-> "none", ret |-> val_performance]
         /\ UNCHANGED <<indVars, paramVars, toolVars>>
    ELSE Raises("get_val_performance", <<>>)

set_ei(f) ==
    IF IsNone(ei)
    THEN /\ ei' = Some(f)
         /\ Remember("ei", f)
         /\ call' = [op |-> "set_ei", args |-> <<f>>,
                     raised |-> "none", ret |-> None]
         /\ UNCHANGED <<train_performance, val_performance, paramVars, toolVars>>
    ELSE Raises("set_ei", <<f>>)

get_ei ==
    IF ~IsNone(ei)
    THEN /\ call' = [op |-> "get_ei", args |-> <<>>, raised |-> "none", ret |-> ei]
         /\ UNCHANGED <<indVars, paramVars, toolVars>>
    ELSE Raises("get_ei", <<>>)

(***************************************************************************)
(* Individual.params and get_params.  The parameter mapping is a Python    *)
(* dict whose values are floats or (references to) lists of floats; every  *)
(* dict and list is an object of the heap, named by its index.             *)
(***************************************************************************)
MaxCopies == 1

Keys == {"alpha", "layers"}

\* the floats stored under a key or in a list
ParamValues == {0, 1}

Atom(v) == [ref |-> FALSE, x |-> v]
Ref(id) == [ref |-> TRUE, x |-> id]
DictObj(items) == [type |-> "dict", items |-> items, elems |-> <<>>]
ListObj(elems) == [type |-> "list", items |-> [k \in Keys |-> Atom(0)], elems |-> elems]

\* the list objects a dict refers to
Referents(h, d) == {h[d].items[k].x : k \in {j \in Keys : h[d].items[j].ref}}

\* every object reachable from dict d, d included
Reach(h, d) == {d} \cup Referents(h, d)

\* the value of dict d, by content and not by identity (Python's ==)
Value(h, d) ==
    [k \in Keys |-> IF h[d].items[k].ref
                    THEN [kind |-> "list", elems |-> h[h[d].items[k].x].elems]
                    ELSE [kind |-> "float", elems |-> <<h[d].items[k].x>>]]

RECURSIVE SetToSeq(_)
SetToSeq(S) ==
    IF S = {} THEN <<>>
    ELSE LET m == CHOOSE x \in S : \A y \in S : x <= y
         IN <<m>> \o SetToSeq(S \ {m})

IndexOf(seq, x) == CHOOSE i \in 1..Len(seq) : seq[i] = x

\* copy.copy: a new dict whose values are the same objects
shallowcopy(h, d) ==
    [heap |-> Append(h, DictObj(h[d].items)), ret |-> Len(h) + 1]

\* copy.deepcopy of dict d: a new dict, and one new list per list it refers to
\* (two keys that share a list share its copy, as deepcopy's memo does)
deepcopy(h, d) ==
    LET olds == SetToSeq(Referents(h, d))
        new == Len(h) + 1
        NewOf(l) == new + IndexOf(olds, l)
        items == [k \in Keys |-> IF h[d].items[k].ref
                                 THEN Ref(NewOf(h[d].items[k].x))
                                 ELSE h[d].items[k]]
        lists == [i \in 1..Len(olds) |-> ListObj(h[olds[i]].elems)]
    IN [heap |-> Append(h, DictObj(items)) \o lists, ret |-> new]

get_params_shallow ==
    /\ Cardinality(returned) < MaxCopies
    /\ LET c == shallowcopy(heap, params)
       IN /\ heap' = c.heap
          /\ returned' = returned \cup {c.ret}
          /\ call' = [op |-> "get_params", args |-> <<>>, raised |-> "none",
                      ret |-> Some(c.ret)]
    /\ UNCHANGED <<params, indVars, toolVars>>

get_params ==
    /\ Cardinality(returned) < MaxCopies
    /\ LET c == deepcopy(heap, params)
       IN /\ heap' = c.heap
          /\ returned' = returned \cup {c.ret}
          /\ call' = [op |-> "get_params", args |-> <<>>, raised |-> "none",
                      ret |-> Some(c.ret)]
    /\ UNCHANGED <<params, indVars, toolVars>>

\* caller code: d[k] = v on a dict it holds
SetItem(d, k, v, op) ==
    /\ heap' = [heap EXCEPT ![d].items[k] = Atom(v)]
    /\ call' = [op |-> op, args |-> <<d>>, raised |-> "none", ret |-> None]
    /\ UNCHANGED <<params, returned, indVars, toolVars>>

\* caller code: d[k][0] = v on a dict it holds, k naming a list
SetNested(d, k, v, op) ==
    /\ heap[d].items[k].ref
    /\ heap' = [heap EXCEPT ![heap[d].items[k].x].elems = <<v>>]
    /\ call' = [op |-> op, args |-> <<d>>, raised |-> "none", ret |-> None]
    /\ UNCHANGED <<params, returned, indVars, toolVars>>

\* the caller mutates a mapping get_params returned
CallerMutatesReturned ==
    \E d \in returned, k \in Keys, v \in ParamValues :
        \/ SetItem(d, k, v, "mutate_returned")
        \/ SetNested(d, k, v, "mutate_returned_nested")

\* __init__ keeps the caller's dict itself (self.params = params): the caller
\* still holds that object and may change it
ConstructorArgument == 1

CallerMutatesArgument ==
    \E k \in Keys, v \in ParamValues :
        \/ SetItem(ConstructorArgument, k, v, "mutate_argument")
        \/ SetNested(ConstructorArgument, k, v, "mutate_argument_nested")

\* the state right after Individual(params, model_type)
InitIndividual ==
    /\ train_performance = None
    /\ val_performance = None
    /\ ei = None
    /\ first_set = [f \in Fields |-> None]
    /\ params = ConstructorArgument
    /\ returned = {}
    /\ \E a \in ParamValues, l \in ParamValues :
          heap = << DictObj([k \in Keys |-> IF k = "alpha" THEN Atom(a) ELSE Ref(2)]),
                    ListObj(<<l>>) >>

\* the tools build no Individual
NoIndividual ==
    /\ train_performance = None
    /\ val_performance = None
    /\ ei = None
    /\ first_set = None
    /\ params = None
    /\ returned = {}
    /\ heap = <<>>

NoTools ==
    /\ fs = None
    /\ tasks_summary = None
    /\ output_csv = None
    /\ model_array_ids = None
    /\ empty_count = 0

InitInd == InitIndividual /\ NoTools /\ call = NoCall

NextInd ==
    \/ \E f \in Floats : set_train_performance(f)
    \/ get_train_performance
    \/ \E f \in Floats : set_val_performance(f)
    \/ get_val_performance
    \/ \E f \in Floats : set_ei(f)
    \/ get_ei

SpecInd == InitInd /\ [][NextInd]_vars

NextParams ==
    \/ get_params
    \/ CallerMutatesReturned
    \/ CallerMutatesArgument

SpecParams == InitInd /\ [][NextParams]_vars

(***************************************************************************)
(* The results tree                                                        *)
(*   <root>/<model>_Timing/task_<id>/Replicate_<n>/                        *)
(*        global_accuracy_results.json   best_model_results.json           *)
(*                                                                         *)
(* A replicate slot is a record                                            *)
(*   kind    "missing" | "file" | "dir"                                    *)
(*   other   the directory holds some entry besides the two artifacts      *)
(*   global  state of global_accuracy_results.json:                        *)
(*             "absent"    no such file                                    *)
(*             "malformed" unreadable, or not JSON (IOError/JSONDecodeError)*)
(*             "nondict"   JSON, but not an object (a list, a number, ...) *)
(*             "true"      an object with a truthy time_exceeded           *)
(*             "false"     an object with a falsy time_exceeded            *)
(*             "nokey"     an object without time_exceeded                 *)
(*   best    state of best_model_results.json: "absent", "malformed",      *)
(*             "nondict", "nokey" (no test_accuracy, or null), "num"       *)
(*   acc     the test_accuracy (hundredths) when best = "num"              *)
(***************************************************************************)
MaxReplicates == 2

\* 0 is the falsy accuracy 0.0
TestAccuracies == {0, 80}

GlobalStates == {"absent", "malformed", "nondict", "true", "false", "nokey"}
BestStates == {"absent", "malformed", "nondict", "nokey"}

MissingReplicate ==
    [kind |-> "missing", other |-> FALSE, global |-> "absent", best |-> "absent", acc |-> 0]
FileReplicate ==
    [kind |-> "file", other |-> FALSE, global |-> "absent", best |-> "absent", acc |-> 0]
DirReplicate(o, g, b, a) ==
    [kind |-> "dir", other |-> o, global |-> g, best |-> b, acc |-> a]
EmptyReplicate == DirReplicate(FALSE, "absent", "absent", 0)

ReplicateStates ==
    {MissingReplicate, FileReplicate, DirReplicate(TRUE, "absent", "absent", 0)}
    \cup {DirReplicate(FALSE, g, b, 0) : g \in GlobalStates, b \in BestStates}
    \cup {DirReplicate(FALSE, g, "num", a) : g \in GlobalStates, a \in TestAccuracies}

\* Path.exists() of a replicate path
ReplicateExists(rep) == rep.kind # "missing"

\* any(replicate_dir.iterdir())
HasEntries(rep) == rep.other \/ rep.global # "absent" \/ rep.best # "absent"

Returned(v) == [raised |-> "none", ret |-> v]
Raised(e) == [raised |-> e, ret |-> None]

Status(is_valid, reason) == [is_valid |-> is_valid, reason |-> reason]

\* check_replicate_status(replicate_path).
\* The reason None of a valid replicate is written "None".
check_replicate_status(rep) ==
    IF rep.kind = "missing" THEN Raised("FileNotFoundError")       \* iterdir()
    ELSE IF rep.kind = "file" THEN Raised("NotADirectoryError")    \* iterdir()
    ELSE IF ~HasEntries(rep) THEN Returned(Status(FALSE, "memory-limit"))
    ELSE IF rep.global = "absent" THEN Returned(Status(FALSE, "memory-limit"))
    ELSE IF rep.global = "malformed" THEN Returned(Status(FALSE, "memory-limit"))
    ELSE IF rep.global = "nondict" THEN Raised("AttributeError")   \* .get of a non-dict
    ELSE IF rep.global = "true" THEN Returned(Status(FALSE, "time-limit"))
    ELSE IF rep.best = "absent" THEN Returned(Status(FALSE, "memory-limit"))
    ELSE Returned(Status(TRUE, "None"))

\* get_test_accuracy(replicate_path): Some(accuracy) or None
get_test_accuracy(rep) ==
    IF rep.kind # "dir" THEN Returned(None)                        \* open(): IOError
    ELSE IF rep.best = "absent" THEN Returned(None)
    ELSE IF rep.best = "malformed" THEN Returned(None)
    ELSE IF rep.best = "nondict" THEN Raised("AttributeError")     \* .get of a non-dict
    ELSE IF rep.best = "nokey" THEN Returned(None)
    ELSE Returned(Some(rep.acc))

\* A task directory: exists, and the replicate slots 0, 1, ... it holds
\* (slot i is reps[i+1]; a slot beyond the sequence is missing)
TaskDir(exists, reps) == [exists |-> exists, reps |-> reps]
MissingTask == TaskDir(FALSE, <<>>)

Replicate(task, i) ==
    IF task.exists /\ i + 1 <= Len(task.reps) THEN task.reps[i + 1] ELSE MissingReplicate

RECURSIVE SumSeq(_)
SumSeq(q) == IF q = <<>> THEN 0 ELSE Head(q) + SumSeq(Tail(q))

\* sum(test_accuracies) / len(test_accuracies), as an exact fraction
Mean(test_accuracies) == [num |-> SumSeq(test_accuracies), den |-> Len(test_accuracies)]

\* 'time-limit' tested first
OverallFailureTimeFirst(failure_reasons) ==
    IF "time-limit" \in failure_reasons THEN "time-limit"
    ELSE IF "memory-limit" \in failure_reasons THEN "memory-limit"
    ELSE "None"

OverallFailure(failure_reasons) ==
    IF "memory-limit" \in failure_reasons THEN "memory-limit"
    ELSE IF "time-limit" \in failure_reasons THEN "time-limit"
    ELSE "None"

Result(avg, failure) == [avg |-> avg, failure |-> failure]

\* "if test_accuracy:" instead: the accuracy 0.0 is dropped as well
CollectTruthy(test_accuracies, test_accuracy) ==
    IF ~IsNone(test_accuracy) /\ Val(test_accuracy) # 0
    THEN Append(test_accuracies, Val(test_accuracy))
    ELSE test_accuracies

\* if test_accuracy is not None: test_accuracies.append(test_accuracy)
Collect(test_accuracies, test_accuracy) ==
    IF ~IsNone(test_accuracy)
    THEN Append(test_accuracies, Val(test_accuracy))
    ELSE test_accuracies

\* the loop of process_task_model from replicate i on
RECURSIVE ScanReplicates(_, _, _, _, _)
ScanReplicates(task, i, num_replicates, test_accuracies, failure_reasons) ==
    IF i >= num_replicates
    THEN Returned(Result(IF test_accuracies # <<>> THEN Some(Mean(test_accuracies)) ELSE None,
                         OverallFailure(failure_reasons)))
    ELSE LET rep == Replicate(task, i) IN
         IF ~ReplicateExists(rep)
         THEN ScanReplicates(task, i + 1, num_replicates, test_accuracies,
                             failure_reasons \cup {"memory-limit"})
         ELSE LET st == check_replicate_status(rep) IN
              IF st.raised # "none" THEN Raised(st.raised)
              ELSE IF ~st.ret.is_valid
              THEN ScanReplicates(task, i + 1, num_replicates, test_accuracies,
                                  failure_reasons \cup {st.ret.reason})
              ELSE LET acc == get_test_accuracy(rep) IN
                   IF acc.raised # "none" THEN Raised(acc.raised)
                   ELSE ScanReplicates(task, i + 1, num_replicates,
                                       Collect(test_accuracies, acc.ret),
                                       failure_reasons)

\* process_task_model, given the task directory its path names
ProcessTaskDir(task, num_replicates) ==
    IF ~task.exists THEN Returned(Result(None, "None"))
    ELSE ScanReplicates(task, 0, num_replicates, <<>>, {})

\* The results root: exists, and its entries by name.  A name is the tuple
\* of its parts, so that the suffix "_Timing" can be tested and removed;
\* an entry is a file or a directory of task directories task_<id>.
Name(base) == <<base, "_Timing">>
Entry(kind, tasks) == [kind |-> kind, tasks |-> tasks]
FileEntry == Entry("file", <<>>)
Root(exists, entries) == [exists |-> exists, entries |-> entries]

\* Path(timing_results_dir) / model_name / f'task_{task_id}'
TaskPath(timing_results_dir, model_name, task_id) ==
    IF /\ timing_results_dir.exists
       /\ model_name \in DOMAIN timing_results_dir.entries
       /\ timing_results_dir.entries[model_name].kind = "dir"
       /\ task_id \in DOMAIN timing_results_dir.entries[model_name].tasks
    THEN timing_results_dir.entries[model_name].tasks[task_id]
    ELSE MissingTask

process_task_model(timing_results_dir, model_name, task_id, num_replicates) ==
    ProcessTaskDir(TaskPath(timing_results_dir, model_name, task_id), num_replicates)

(***************************************************************************)
(* Calls of the per-replicate and per-task functions on one task directory *)
(***************************************************************************)
TheModel == Name("DT")
TheTask == 1

OneTaskRoot(task) ==
    Root(TRUE, [m \in {TheModel} |->
                  Entry("dir", IF task.exists THEN [t \in {TheTask} |-> task]
                                              ELSE <<>>)])

TaskDirs ==
    {MissingTask} \cup {TaskDir(TRUE, reps) : reps \in [1..MaxReplicates -> ReplicateStates]}

InitTask ==
    /\ NoIndividual
    /\ \E task \in TaskDirs : fs = OneTaskRoot(task)
    /\ tasks_summary = None
    /\ output_csv = None
    /\ model_array_ids = None
    /\ empty_count = 0
    /\ call = NoCall

Frame == UNCHANGED <<indVars, paramVars, toolVars>>

CallCheckReplicateStatus(i) ==
    /\ call' = [op |-> "check_replicate_status", args |-> <<i>>] @@
               check_replicate_status(Replicate(TaskPath(fs, TheModel, TheTask), i))
    /\ Frame

CallGetTestAccuracy(i) ==
    /\ call' = [op |-> "get_test_accuracy", args |-> <<i>>] @@
               get_test_accuracy(Replicate(TaskPath(fs, TheModel, TheTask), i))
    /\ Frame

CallProcessTaskModel(num_replicates) ==
    /\ call' = [op |-> "process_task_model", args |-> <<num_replicates>>] @@
               process_task_model(fs, TheModel, TheTask, num_replicates)
    /\ Frame

NextTask ==
    \/ \E i \in 0..(MaxReplicates - 1) : CallCheckReplicateStatus(i)
    \/ \E i \in 0..(MaxReplicates - 1) : CallGetTestAccuracy(i)
    \/ \E n \in 1..MaxReplicates : CallProcessTaskModel(n)

SpecTask == InitTask /\ [][NextTask]_vars

(***************************************************************************)
(* aggregate_results.py: aggregate_results and main                        *)
(*                                                                         *)
(* A table is its column names and its rows; a row is the task_id and the  *)
(* cells of the other columns.  Column names are tuples of name parts,     *)
(* like the directory names.                                               *)
(***************************************************************************)
DefaultReplicates == 10

Suffix == "_Timing"
TaskIdColumn == <<"task_id">>
FailureColumn == <<"Failure">>

Table(exists, columns, rows) == [exists |-> exists, columns |-> columns, rows |-> rows]
MissingTable == Table(FALSE, <<>>, <<>>)

\* d.name.endswith('_Timing')
EndsWithSuffix(name) == Len(name) > 0 /\ name[Len(name)] = Suffix

\* model_dir.replace('_Timing', '')
StripSuffix(name) == SelectSeq(name, LAMBDA part : part # Suffix)

\* the names that occur in a results root, in the order of str comparison
LexicalOrder == <<Name("DT"), Name("ET"), <<"Notes">>, Name("RF")>>

\* sorted(d.name for d in iterdir() if d.is_dir() and d.name.endswith('_Timing'))
ModelDirs(timing_results_dir) ==
    SelectSeq(LexicalOrder,
              LAMBDA name : /\ name \in DOMAIN timing_results_dir.entries
                            /\ timing_results_dir.entries[name].kind = "dir"
                            /\ EndsWithSuffix(name))

\* the loop over model_dirs for one row, from the k-th model on
\* (results: what process_task_model returned, model by model)
RECURSIVE ScanModels(_, _, _, _, _, _, _)
ScanModels(timing_results_dir, task_id, model_dirs, k, cells, task_failures, results) ==
    IF k > Len(model_dirs)
    THEN Returned([cells |-> cells, task_failures |-> task_failures, results |-> results])
    ELSE LET r == process_task_model(timing_results_dir, model_dirs[k], task_id,
                                     DefaultReplicates)
         IN IF r.raised # "none" THEN Raised(r.raised)
            ELSE ScanModels(timing_results_dir, task_id, model_dirs, k + 1,
                            [cells EXCEPT ![StripSuffix(model_dirs[k])] = r.ret.avg],
                            IF r.ret.failure # "None"
                            THEN task_failures \cup {r.ret.failure}
                            ELSE task_failures,
                            Append(results, r.ret))

\* the Failure cell of a row
TaskFailure(task_failures) ==
    IF "memory-limit" \in task_failures THEN "memory-limit"
    ELSE IF "time-limit" \in task_failures THEN "time-limit"
    ELSE "None"

\* the loop over the rows of df, from row idx on; rows done are in df
RECURSIVE ProcessTasks(_, _, _, _, _)
ProcessTasks(timing_results_dir, rows, model_dirs, idx, df) ==
    IF idx > Len(rows) THEN Returned(df)
    ELSE LET names == {StripSuffix(model_dirs[k]) : k \in 1..Len(model_dirs)}
             r == ScanModels(timing_results_dir, rows[idx].task_id, model_dirs, 1,
                             [n \in names |-> None], {}, <<>>)
         IN IF r.raised # "none" THEN Raised(r.raised)
            ELSE ProcessTasks(timing_results_dir, rows, model_dirs, idx + 1,
                              Append(df, [idx |-> idx,
                                          task_id |-> rows[idx].task_id,
                                          cells |-> r.ret.cells,
                                          results |-> r.ret.results,
                                          Failure |-> TaskFailure(r.ret.task_failures)]))

\* accuracy > threshold
ExceedsStrictly(accuracy, threshold) ==
    ~IsNone(accuracy) /\ Val(accuracy).num > threshold * Val(accuracy).den

\* accuracy is not None and accuracy >= threshold
Exceeds(accuracy, threshold) ==
    ~IsNone(accuracy) /\ Val(accuracy).num >= threshold * Val(accuracy).den

\* exceeds_threshold of one row
ExceedsThreshold(row, model_dirs, threshold) ==
    \E k \in 1..Len(model_dirs) : Exceeds(row.cells[StripSuffix(model_dirs[k])], threshold)

\* rows of every failure are kept
FailureFilterAll(df) == df

\* df[df['Failure'] == 'None']
FailureFilter(df) == SelectSeq(df, LAMBDA row : row.Failure = "None")

\* the threshold filter; threshold is None or Some(t)
ThresholdFilter(df_filtered, model_dirs, threshold) ==
    IF IsNone(threshold) THEN df_filtered
    ELSE SelectSeq(df_filtered,
                   LAMBDA row : ~ExceedsThreshold(row, model_dirs, Val(threshold)))

\* df_filtered.drop(columns=['Failure']) and to_csv(index=False)
Written(columns, df_filtered) ==
    Table(TRUE,
          SelectSeq(columns, LAMBDA c : c # FailureColumn),
          [j \in 1..Len(df_filtered) |->
              [task_id |-> df_filtered[j].task_id, cells |-> df_filtered[j].cells]])

\* aggregate_results(tasks_summary_path, timing_results_dir, output_path, threshold):
\* raises, or returns the locals model_dirs, df, df_filtered and the table it writes
aggregate_results(table, timing_results_dir, threshold) ==
    LET model_dirs == ModelDirs(timing_results_dir)
        columns == table.columns
                   \o [k \in 1..Len(model_dirs) |-> StripSuffix(model_dirs[k])]
                   \o <<FailureColumn>>
        df == ProcessTasks(timing_results_dir, table.rows, model_dirs, 1, <<>>)
    IN IF df.raised # "none" THEN Raised(df.raised)
       ELSE LET df_filtered == ThresholdFilter(FailureFilter(df.ret), model_dirs, threshold)
            IN Returned([model_dirs |-> model_dirs,
                         df |-> df.ret,
                         df_filtered |-> df_filtered,
                         written |-> Written(columns, df_filtered)])

\* the script aggregate_results.py: main() and exit(main()).
\* output is None (overwrite the input table) or Some(path).
AggregateMain(output, threshold) ==
    /\ call.op = "none"
    /\ UNCHANGED <<indVars, paramVars, fs, model_array_ids, empty_count>>
    /\ IF ~tasks_summary.exists \/ ~fs.exists
       THEN /\ call' = [op |-> "aggregate_results.py", threshold |-> threshold,
                        output |-> output, scanned |-> FALSE, raised |-> "none",
                        exit_status |-> 1, read |-> None, ret |-> None]
            /\ UNCHANGED <<tasks_summary, output_csv>>
       ELSE \E r \in {aggregate_results(tasks_summary, fs, threshold)} :
            IF r.raised # "none"
            THEN /\ call' = [op |-> "aggregate_results.py", threshold |-> threshold,
                             output |-> output, scanned |-> TRUE, raised |-> r.raised,
                             exit_status |-> 1, read |-> tasks_summary, ret |-> None]
                 /\ UNCHANGED <<tasks_summary, output_csv>>
            ELSE /\ call' = [op |-> "aggregate_results.py", threshold |-> threshold,
                             output |-> output, scanned |-> TRUE, raised |-> "none",
                             exit_status |-> 0, read |-> tasks_summary, ret |-> r.ret]
                 /\ output_csv' = Some(r.ret.written)
                 /\ tasks_summary' = IF IsNone(output) THEN r.ret.written
                                     ELSE tasks_summary

\* Task directories of the aggregation runs: ten replicate slots, of which
\* the first two vary
Valid(a) == DirReplicate(FALSE, "false", "num", a)
TimeExceeded == DirReplicate(FALSE, "true", "num", 80)
Slots(r0, r1) ==
    TaskDir(TRUE, <<r0, r1>> \o [j \in 1..(DefaultReplicates - 2) |-> Valid(80)])

AggTaskDirs ==
    { MissingTask,
      Slots(Valid(80), Valid(80)),
      Slots(Valid(0), Valid(80)),
      Slots(DirReplicate(FALSE, "nokey", "nokey", 0), Valid(80)),
      Slots(EmptyReplicate, Valid(80)),
      Slots(MissingReplicate, TimeExceeded),
      Slots(TimeExceeded, Valid(80)),
      Slots(DirReplicate(FALSE, "nondict", "num", 80), Valid(80)) }

\* the second model directory varies less
AggTaskDirsET ==
    { MissingTask,
      Slots(Valid(80), Valid(80)),
      Slots(MissingReplicate, TimeExceeded),
      Slots(TimeExceeded, Valid(80)) }

MaxRows == 2
AggTasks == {1, 2}
Thresholds == {72, 80, 81}

ModelEntry(tasks) ==
    Entry("dir", [t \in {u \in AggTasks : tasks[u].exists} |-> tasks[t]])

\* a results root: DT_Timing with both tasks, possibly ET_Timing with the first
\* task at most, a directory Notes and a file RF_Timing
AggRoots ==
    {Root(TRUE, [n \in {Name("DT"), <<"Notes">>, Name("RF")} |->
                    IF n = Name("DT") THEN ModelEntry(dt)
                    ELSE IF n = Name("RF") THEN FileEntry
                    ELSE Entry("dir", <<>>)]) : dt \in [AggTasks -> AggTaskDirs]}
    \cup
    {Root(TRUE, [n \in {Name("DT"), Name("ET"), <<"Notes">>, Name("RF")} |->
                    IF n = Name("DT") THEN ModelEntry(dt)
                    ELSE IF n = Name("ET")
                         THEN ModelEntry([t \in AggTasks |-> IF t = 1 THEN et ELSE MissingTask])
                    ELSE IF n = Name("RF") THEN FileEntry
                    ELSE Entry("dir", <<>>)]) :
        dt \in [AggTasks -> AggTaskDirs], et \in AggTaskDirsET}

MissingRoot == Root(FALSE, <<>>)

InputTables ==
    {Table(TRUE, <<TaskIdColumn>>,
           [j \in 1..n |-> [task_id |-> ids[j], cells |-> <<>>]]) :
        n \in 0..MaxRows, ids \in [1..MaxRows -> AggTasks]}

InitAgg ==
    /\ NoIndividual
    /\ fs \in AggRoots \cup {MissingRoot}
    /\ tasks_summary \in InputTables \cup {MissingTable}
    /\ output_csv = None
    /\ model_array_ids = None
    /\ empty_count = 0
    /\ call = NoCall

NextAgg ==
    \E output \in {None, Some("out.csv")},
       threshold \in {None} \cup {Some(t) : t \in Thresholds} :
        AggregateMain(output, threshold)

SpecAgg == InitAgg /\ [][NextAgg]_vars

(***************************************************************************)
(* job_checker.py                                                          *)
(***************************************************************************)
TASK_IDS ==
    << 190412, 146818, 359955, 168757, 359956, 359958, 359962, 190137, 168911, 190392,
       189922, 359965, 359966, 359967, 190411, 146820, 359968, 359975, 359972, 168350,
       359973, 190410, 359971, 359988, 359989, 359979, 359980, 359992, 359982, 167120,
       359990, 189354, 360114, 359994 >>

NUM_REPLICATES == 10

MODEL_FOLDERS ==
    << Name("DT"), Name("ET"), Name("GB"), Name("KSVC"), Name("LSGD"), Name("LSVC"),
       Name("RF") >>

\* is_folder_empty(folder_path)
is_folder_empty(rep) ==
    IF rep.kind = "missing" THEN TRUE          \* not os.path.exists
    ELSE IF rep.kind # "dir" THEN TRUE         \* not os.path.isdir
    ELSE ~HasEntries(rep)                      \* len(os.listdir(folder_path)) == 0

\* enumerate() read as starting at 1
calculate_array_id_one_based(task_index, replicate) ==
    (task_index + 1) * NUM_REPLICATES + replicate

calculate_array_id(task_index, replicate) == task_index * NUM_REPLICATES + replicate

\* model_path.exists()
ModelPathExists(timing_results_dir, model_folder) ==
    model_folder \in DOMAIN timing_results_dir.entries

\* the loop over range(NUM_REPLICATES) for one task: the array ids it appends
\* to model_array_ids[model_name] from replicate rep on, in order
RECURSIVE CheckReplicates(_, _, _)
CheckReplicates(task, task_index, rep) ==
    IF rep >= NUM_REPLICATES THEN <<>>
    ELSE (IF ~task.exists \/ is_folder_empty(Replicate(task, rep))
          THEN <<calculate_array_id(task_index, rep)>>
          ELSE <<>>) \o CheckReplicates(task, task_index, rep + 1)

\* the loop over enumerate(TASK_IDS) for one model: the array ids it appends
\* from position task_index on, in order
RECURSIVE CheckTasks(_, _, _)
CheckTasks(timing_results_dir, model_folder, task_index) ==
    IF task_index >= Len(TASK_IDS) THEN <<>>
    ELSE CheckReplicates(TaskPath(timing_results_dir, model_folder, TASK_IDS[task_index + 1]),
                         task_index, 0)
         \o CheckTasks(timing_results_dir, model_folder, task_index + 1)

\* array_ids.sort(): the ascending arrangement of q; item j moves to the
\* position after the smaller items and the equal items before it (stable)
Sort(q) ==
    LET position == [j \in 1..Len(q) |->
                        1 + Cardinality({k \in 1..Len(q) :
                                           q[k] < q[j] \/ (q[k] = q[j] /\ k < j)})]
    IN [i \in 1..Len(q) |-> q[CHOOSE j \in 1..Len(q) : position[j] = i]]

ModelNames == {StripSuffix(MODEL_FOLDERS[k]) : k \in 1..Len(MODEL_FOLDERS)}

\* check_timing_results(timing_results_dir), the results root existing: the
\* array ids per model name, sorted as the summary sorts them
ScanTimingResults(timing_results_dir) ==
    [model_name \in ModelNames |->
        LET model_folder == CHOOSE f \in {MODEL_FOLDERS[k] : k \in 1..Len(MODEL_FOLDERS)} :
                                StripSuffix(f) = model_name
        IN IF ~ModelPathExists(timing_results_dir, model_folder) THEN <<>>
           ELSE Sort(CheckTasks(timing_results_dir, model_folder, 0))]

RECURSIVE CountIds(_, _)
CountIds(ids, names) ==
    IF names = {} THEN 0
    ELSE LET n == CHOOSE m \in names : TRUE
         IN Len(ids[n]) + CountIds(ids, names \ {n})

\* the script job_checker.py: main() and check_timing_results
AuditMain ==
    /\ call.op = "none"
    /\ UNCHANGED <<indVars, paramVars, fs, tasks_summary, output_csv>>
    /\ IF ~fs.exists
       THEN /\ call' = [op |-> "job_checker.py", scanned |-> FALSE, raised |-> "none",
                        exit_status |-> 0]
            /\ UNCHANGED <<model_array_ids, empty_count>>
       ELSE \E ids \in {ScanTimingResults(fs)} :
            /\ model_array_ids' = Some(ids)
            /\ empty_count' = CountIds(ids, ModelNames)
            /\ call' = [op |-> "job_checker.py", scanned |-> TRUE, raised |-> "none",
                        exit_status |-> 0]

\* Results roots of the audit runs: the task directories are complete but for
\* the first two tasks of DT_Timing and the second task of ET_Timing
NonEmpty == DirReplicate(TRUE, "absent", "absent", 0)
Complete == TaskDir(TRUE, [j \in 1..NUM_REPLICATES |-> NonEmpty])
AuditSlotStates == {MissingReplicate, FileReplicate, EmptyReplicate, NonEmpty}

\* a complete task directory with replicate slot r replaced
WithSlot(r, rep) == TaskDir(TRUE, [j \in 1..NUM_REPLICATES |-> IF j = r + 1 THEN rep ELSE NonEmpty])

AuditEntry(first, second) ==
    Entry("dir", [t \in {TASK_IDS[k] : k \in {j \in 1..Len(TASK_IDS) :
                                                \/ j > 2
                                                \/ (j = 1 /\ first.exists)
                                                \/ (j = 2 /\ second.exists)}} |->
                    IF t = TASK_IDS[1] THEN first
                    ELSE IF t = TASK_IDS[2] THEN second
                    ELSE Complete])

AuditRoots ==
    {Root(TRUE, [n \in {Name("DT")} \cup et.names |->
                    IF n = Name("DT") THEN dt ELSE et.entry]) :
        dt \in {AuditEntry(a, b) :
                       a \in {MissingTask} \cup {WithSlot(0, x) : x \in AuditSlotStates},
                       b \in {MissingTask} \cup {WithSlot(3, x) : x \in AuditSlotStates}},
        et \in {[names |-> {}, entry |-> FileEntry]}
               \cup {[names |-> {Name("ET")}, entry |-> AuditEntry(a, WithSlot(3, x))] :
                       a \in {MissingTask, Complete},
                       x \in {EmptyReplicate, NonEmpty}}}

InitTools ==
    /\ NoIndividual
    /\ fs \in AuditRoots \cup {MissingRoot}
    /\ tasks_summary \in {MissingTable,
                          Table(TRUE, <<TaskIdColumn>>,
                                <<[task_id |-> TASK_IDS[2], cells |-> <<>>]>>)}
    /\ output_csv = None
    /\ model_array_ids = None
    /\ empty_count = 0
    /\ call = NoCall

NextTools ==
    \/ AuditMain
    \/ \E output \in {None, Some("out.csv")},
          threshold \in {None} \cup {Some(t) : t \in Thresholds} :
           AggregateMain(output, threshold)

SpecTools == InitTools /\ [][NextTools]_vars

(***************************************************************************)
(* Claims about Individual                                                 *)
(***************************************************************************)
Score(f) ==
    CASE f = "train_performance" -> train_performance
      [] f = "val_performance" -> val_performance
      [] f = "ei" -> ei

SetterOf(f) == "set_" \o f
GetterOf(f) == "get_" \o f

\* C6: for each score field, a setter call raises AssertionError exactly when an
\* earlier setter call for that field succeeded, a getter call raises exactly
\* when none has succeeded yet, a failing call changes no field, a setter
\* changes no other field, and a successful getter returns the value passed to
\* the first setter call of that field.
WriteOnceFields ==
    [][\A f \in Fields :
        /\ call'.op = SetterOf(f) =>
              /\ (call'.raised = "AssertionError") <=> ~IsNone(first_set[f])
              /\ call'.raised = "AssertionError" =>
                    \A g \in Fields : Score(g)' = Score(g)
              /\ call'.raised = "none" => Score(f)' = Some(call'.args[1])
              /\ \A g \in Fields \ {f} : Score(g)' = Score(g)
        /\ call'.op = GetterOf(f) =>
              /\ (call'.raised = "AssertionError") <=> IsNone(first_set[f])
              /\ \A g \in Fields : Score(g)' = Score(g)
              /\ call'.raised = "none" => call'.ret = first_set[f]
      ]_vars

\* a second setter call was rejected although the stored value is the falsy 0.0
WriteOnceWitness ==
    /\ call.op = "set_train_performance"
    /\ call.raised = "AssertionError"
    /\ call.args = <<1>>
    /\ train_performance = Some(0)
    /\ first_set["train_performance"] = Some(0)
    /\ ~IsNone(ei)

TaskUnderTest == TaskPath(fs, TheModel, TheTask)

\* the artifact best_model_results.json declares a test accuracy
HasAccuracy(rep) == rep.kind = "dir" /\ rep.best = "num"

\* replicate slots below n that check_replicate_status classifies as valid
ValidSlots(task, n) ==
    {i \in 0..(n - 1) :
        /\ ReplicateExists(Replicate(task, i))
        /\ check_replicate_status(Replicate(task, i)) = Returned(Status(TRUE, "None"))}

\* the valid slots whose artifact declares a test accuracy
UsableSlots(task, n) == {i \in ValidSlots(task, n) : HasAccuracy(Replicate(task, i))}

RECURSIVE SumAccuracies(_, _)
SumAccuracies(task, S) ==
    IF S = {} THEN 0
    ELSE LET i == CHOOSE j \in S : TRUE
         IN (IF HasAccuracy(Replicate(task, i)) THEN Replicate(task, i).acc ELSE 0)
            + SumAccuracies(task, S \ {i})

\* the fraction avg equals num/den
MeanEq(avg, num, den) == den > 0 /\ avg.den > 0 /\ avg.num * den = num * avg.den

\* avg is the mean of the accuracies of the slots S, None when S is empty
IsMeanOver(avg, task, S) ==
    IF S = {} THEN IsNone(avg)
    ELSE ~IsNone(avg) /\ MeanEq(Val(avg), SumAccuracies(task, S), Cardinality(S))

ProcessReturned ==
    /\ call.op = "process_task_model"
    /\ call.raised = "none"
    /\ TaskUnderTest.exists

\* C1 as stated: the average returned by process_task_model is the mean of the
\* test accuracies of exactly the replicates classified valid, None when no
\* replicate is valid.
MeanOverValidReplicates ==
    ProcessReturned =>
        IsMeanOver(call.ret.avg, TaskUnderTest, ValidSlots(TaskUnderTest, call.args[1]))

\* C1 (amended): the average returned by process_task_model is the mean of the
\* test accuracies of exactly the replicates that are classified valid and
\* whose best_model_results.json declares a test accuracy; it is None when
\* there is no such replicate, in particular when no replicate is valid.
MeanOverUsableReplicates ==
    ProcessReturned =>
        /\ IsMeanOver(call.ret.avg, TaskUnderTest, UsableSlots(TaskUnderTest, call.args[1]))
        /\ ValidSlots(TaskUnderTest, call.args[1]) = {} => IsNone(call.ret.avg)

\* two valid replicates, one with accuracy 0.80 and one without a test
\* accuracy: the average is 0.80, over one replicate
MeanOverUsableWitness ==
    /\ ProcessReturned
    /\ call.args[1] = 2
    /\ ValidSlots(TaskUnderTest, 2) = {0, 1}
    /\ UsableSlots(TaskUnderTest, 2) = {1}
    /\ call.ret.avg = Some([num |-> 80, den |-> 1])

\* the policy of C2, in the order the claim gives it
PolicyStatus(rep) ==
    IF ~HasEntries(rep) THEN Status(FALSE, "memory-limit")
    ELSE IF rep.global = "absent" THEN Status(FALSE, "memory-limit")
    ELSE IF rep.global = "malformed" THEN Status(FALSE, "memory-limit")
    ELSE IF rep.global = "true" THEN Status(FALSE, "time-limit")
    ELSE IF rep.best = "absent" THEN Status(FALSE, "memory-limit")
    ELSE Status(TRUE, "None")

\* C2: for every existing replicate directory check_replicate_status answers
\* by the policy: no entries, primary artifact missing or unparseable =>
\* (False, memory-limit); time_exceeded true => (False, time-limit); best
\* artifact missing => (False, memory-limit); otherwise (True, no reason).
StatusFollowsPolicy ==
    (/\ call.op = "check_replicate_status"
     /\ Replicate(TaskUnderTest, call.args[1]).kind = "dir")
    => /\ call.raised = "none"
       /\ call.ret = PolicyStatus(Replicate(TaskUnderTest, call.args[1]))

\* C7: a per-replicate data error never propagates: process_task_model and
\* get_test_accuracy return for every state of the replicate slots, and so
\* does check_replicate_status for every replicate directory.
DataErrorsNeverPropagate ==
    /\ call.op \in {"process_task_model", "get_test_accuracy"} => call.raised = "none"
    /\ (/\ call.op = "check_replicate_status"
        /\ Replicate(TaskUnderTest, call.args[1]).kind = "dir") => call.raised = "none"

(***************************************************************************)
(* Claims about aggregate_results                                          *)
(***************************************************************************)
AggregateReturned ==
    /\ call.op = "aggregate_results.py"
    /\ call.scanned
    /\ call.raised = "none"

\* memory-limit > time-limit > none
Rank(reason) ==
    CASE reason = "memory-limit" -> 2
      [] reason = "time-limit" -> 1
      [] reason = "None" -> 0

MaxReason(reasons) ==
    CHOOSE r \in reasons \cup {"None"} : \A q \in reasons : Rank(q) <= Rank(r)

\* the reason one replicate slot stands for
SlotReason(rep) ==
    IF ~ReplicateExists(rep) THEN "memory-limit"
    ELSE check_replicate_status(rep).ret.reason

ExpectedFailure(task) ==
    IF ~task.exists THEN "None"
    ELSE MaxReason({SlotReason(Replicate(task, i)) : i \in 0..(DefaultReplicates - 1)})

\* C3: the failure process_task_model returns is 'None' when the task directory
\* does not exist, else the maximum (memory-limit > time-limit > none) of the
\* reasons of the replicate slots, a missing replicate directory counting as
\* memory-limit and a valid replicate as none; the Failure of a row is the
\* maximum of the failures returned for the models.
FailureDominance ==
    AggregateReturned =>
        \A j \in 1..Len(call.ret.df) :
            LET row == call.ret.df[j] IN
            /\ Len(row.results) = Len(call.ret.model_dirs)
            /\ \A k \in 1..Len(row.results) :
                  row.results[k].failure =
                      ExpectedFailure(TaskPath(fs, call.ret.model_dirs[k], row.task_id))
            /\ row.Failure =
                  MaxReason({row.results[k].failure : k \in 1..Len(row.results)})

\* a row whose first model mixes memory-limit and time-limit replicates and
\* whose second model reports time-limit
FailureDominanceWitness ==
    /\ AggregateReturned
    /\ \E j \in 1..Len(call.ret.df) :
          LET row == call.ret.df[j]
              task == TaskPath(fs, Name("DT"), row.task_id) IN
          /\ Len(row.results) = 2
          /\ task.exists
          /\ {SlotReason(Replicate(task, i)) : i \in 0..(DefaultReplicates - 1)}
                = {"memory-limit", "time-limit", "None"}
          /\ row.results[1].failure = "memory-limit"
          /\ row.results[2].failure = "time-limit"
          /\ row.Failure = "memory-limit"

\* the positions (in the table read) of the rows of df_filtered
KeptIdx(df_filtered) == [j \in 1..Len(df_filtered) |-> df_filtered[j].idx]

Increasing(q) == \A a, b \in 1..Len(q) : a < b => q[a] < q[b]

Range(q) == {q[j] : j \in 1..Len(q)}

\* C4: with no threshold the table written holds exactly the rows of the input
\* whose failure is none, in input order, and has no Failure column but one
\* column per model; a task for which some model reports memory-limit or
\* time-limit is not in the output.
NoThresholdOutput ==
    (AggregateReturned /\ IsNone(call.threshold)) =>
        LET df == call.ret.df
            kept == KeptIdx(call.ret.df_filtered)
            out == Val(output_csv) IN
        /\ ~IsNone(output_csv)
        /\ Len(df) = Len(call.read.rows)
        /\ Increasing(kept)
        /\ Range(kept) = {j \in 1..Len(df) : df[j].Failure = "None"}
        /\ Len(out.rows) = Len(kept)
        /\ Len(out.rows) <= Len(call.read.rows)
        /\ \A j \in 1..Len(kept) : out.rows[j].task_id = call.read.rows[kept[j]].task_id
        /\ FailureColumn \notin Range(out.columns)
        /\ out.columns = call.read.columns
                         \o [k \in 1..Len(call.ret.model_dirs) |->
                                StripSuffix(call.ret.model_dirs[k])]
        /\ \A j \in Range(kept) : \A k \in 1..Len(df[j].results) :
              df[j].results[k].failure = "None"

\* task 1 has a valid replicate and an empty replicate directory (memory-limit),
\* task 2 has no failure: only task 2 is written
NoThresholdWitness ==
    /\ AggregateReturned
    /\ IsNone(call.threshold)
    /\ Len(call.read.rows) = 2
    /\ call.read.rows[1].task_id = 1
    /\ call.read.rows[2].task_id = 2
    /\ TaskPath(fs, Name("DT"), 1) = Slots(EmptyReplicate, Valid(80))
    /\ call.ret.df[1].Failure = "memory-limit"
    /\ Len(Val(output_csv).rows) = 1
    /\ Val(output_csv).rows[1].task_id = 2
    /\ Val(output_csv).columns = <<TaskIdColumn, <<"DT">>, <<"ET">>>>

\* some accuracy recorded in the row is defined and at least t
SomeAccuracyAtLeast(row, t) ==
    \E n \in DOMAIN row.cells :
        ~IsNone(row.cells[n]) /\ Val(row.cells[n]).num >= t * Val(row.cells[n]).den

\* the rows kept by a run on the same table and tree with threshold t
KeptWith(t) == Range(KeptIdx(aggregate_results(call.read, fs, Some(t)).ret.df_filtered))

\* C10: a row is dropped by the threshold exactly when some model's recorded
\* accuracy is defined and >= the threshold, rows with a failure are dropped
\* whatever the threshold, and the rows kept with a threshold are kept with
\* every greater threshold.
ThresholdMonotonic ==
    (AggregateReturned /\ ~IsNone(call.threshold)) =>
        LET df == call.ret.df
            kept == Range(KeptIdx(call.ret.df_filtered)) IN
        /\ kept = {j \in 1..Len(df) :
                     /\ df[j].Failure = "None"
                     /\ ~SomeAccuracyAtLeast(df[j], Val(call.threshold))}
        /\ \A t \in Thresholds : Val(call.threshold) <= t => kept \subseteq KeptWith(t)

\* threshold 0.80: a row with accuracy 0.72 is kept, a row with accuracy 0.80
\* is dropped
ThresholdWitness ==
    /\ AggregateReturned
    /\ call.threshold = Some(80)
    /\ Len(call.ret.df) = 2
    /\ call.ret.df[1].Failure = "None"
    /\ call.ret.df[2].Failure = "None"
    /\ call.ret.df[1].cells[<<"DT">>] = Some([num |-> 720, den |-> 10])
    /\ call.ret.df[2].cells[<<"DT">>] = Some([num |-> 800, den |-> 10])
    /\ KeptIdx(call.ret.df_filtered) = <<1>>
    /\ KeptWith(81) = {1, 2}

(***************************************************************************)
(* Claims about the command-line tools                                     *)
(***************************************************************************)
AuditReturned ==
    /\ call.op = "job_checker.py"
    /\ call.scanned

\* the replicate directory of (model folder, task at position t, replicate r)
\* is missing, is not a directory, or has no entries
SlotFlagged(model_folder, t, r) ==
    LET task == TaskPath(fs, model_folder, TASK_IDS[t + 1]) IN
    \/ ~task.exists
    \/ Replicate(task, r).kind = "missing"
    \/ Replicate(task, r).kind # "dir"
    \/ ~HasEntries(Replicate(task, r))

ExpectedArrayIds(model_folder) ==
    {s[1] * NUM_REPLICATES + s[2] :
        s \in {x \in (0..(Len(TASK_IDS) - 1)) \X (0..(NUM_REPLICATES - 1)) :
                 SlotFlagged(model_folder, x[1], x[2])}}

\* C5: for every model of the fixed list whose folder exists, the array ids
\* recorded are exactly t*NUM_REPLICATES + r over the flagged slots, t being
\* the position of the task in TASK_IDS, each recorded once; for a model whose
\* folder is absent nothing is recorded; the counter is the number of ids.
AuditRecordsFlaggedSlots ==
    AuditReturned =>
        LET ids == Val(model_array_ids) IN
        /\ \A k \in 1..Len(MODEL_FOLDERS) :
              LET recorded == ids[StripSuffix(MODEL_FOLDERS[k])] IN
              IF MODEL_FOLDERS[k] \in DOMAIN fs.entries
              THEN /\ Range(recorded) = ExpectedArrayIds(MODEL_FOLDERS[k])
                   /\ Len(recorded) = Cardinality(ExpectedArrayIds(MODEL_FOLDERS[k]))
              ELSE recorded = <<>>
        /\ empty_count =
              Cardinality(UNION {{<<k, j>> : j \in 1..Len(ids[StripSuffix(MODEL_FOLDERS[k])])} :
                                   k \in 1..Len(MODEL_FOLDERS)})

\* task 146818 stands at position 1: its empty replicate 3 under DT_Timing is
\* recorded as array id 13 next to the ten ids of the missing first task, and
\* nothing is recorded for the absent ET_Timing
AuditWitness ==
    /\ AuditReturned
    /\ TASK_IDS[2] = 146818
    /\ ~TaskPath(fs, Name("DT"), TASK_IDS[1]).exists
    /\ Replicate(TaskPath(fs, Name("DT"), 146818), 3) = EmptyReplicate
    /\ Val(model_array_ids)[<<"DT">>] = <<0, 1, 2, 3, 4, 5, 6, 7, 8, 9, 13>>
    /\ Name("ET") \notin DOMAIN fs.entries
    /\ Val(model_array_ids)[<<"ET">>] = <<>>
    /\ empty_count = 11

ToolEnded == call.op \in {"aggregate_results.py", "job_checker.py"}

MissingInput ==
    \/ call.op = "aggregate_results.py" /\ (~tasks_summary.exists \/ ~fs.exists)
    \/ call.op = "job_checker.py" /\ ~fs.exists

\* C8: when the input table or the results root does not exist, either tool
\* ends with a non-zero exit status, having scanned no directory and written
\* no output; the aggregation tool exits with 1 in that case and with 0
\* otherwise.
MissingInputIsFatal ==
    ToolEnded =>
        /\ MissingInput =>
              /\ call.exit_status # 0
              /\ ~call.scanned
              /\ output_csv = None
              /\ model_array_ids = None
        /\ call.op = "aggregate_results.py" =>
              call.exit_status = (IF MissingInput THEN 1 ELSE 0)

====
